---- MODULE Spec2Model ----
(***************************************************************************)
(* Slot catalog, schedule model and doctor-profile schedule editor of the  *)
(* health-connect frontend.                                                *)
(*                                                                         *)
(* JavaScript strings are modelled as sequences of one-character strings,  *)
(* so that formatting (toString, padStart, template literals) and parsing  *)
(* (split, Number) are computed and not assumed.                           *)
(* JavaScript arrays are 0-based; the sequences here are 1-based, so the   *)
(* array element a[i] is the sequence element a[i + 1].                    *)
(***************************************************************************)
EXTENDS Integers, Sequences, FiniteSets, TLC

VARIABLES
    FIXED_TIME_SLOTS,   \* utils/timeSlots: the exported slot catalog array
    call,               \* the last call of an exported catalog function
    scheduleInput,      \* the collection initializeSchedule is applied to
    initialized,        \* initializeSchedule(scheduleInput)
    reinitialized,      \* initializeSchedule(initialized)
    ipc,                \* how often initializeSchedule has been applied
    currentUser,        \* AppContext currentUser (its schedule field)
    effectPending,      \* the [currentUser] effect of DoctorProfile has yet to run
    formData,           \* DoctorProfile formData (its schedule field)
    isLoading,          \* DoctorProfile isLoading
    request,            \* the updateDoctorProfile request awaiting its response
    toggleRun,          \* the consecutive toggles of one slot since it was absent
    lastOp,             \* the last DoctorProfile handler that ran
    heap,               \* the arrays and objects allocated so far, by address
    roots,              \* the addresses held by FIXED_TIME_SLOTS, currentUser, formData
    heapOp,             \* the last operation that ran on the heap
    doctorPage,         \* DoctorPage: its useState values
    slotsEffectPending, \* the [selectedDate, doctor] effect of DoctorPage has yet to run
    slotRequests,       \* the getAvailableSlots calls made, in order, with their outcome
    bookingRequests     \* the addAppointment calls made, in order, with their outcome

vars == <<FIXED_TIME_SLOTS, call, scheduleInput, initialized, reinitialized,
          ipc, currentUser, effectPending, formData, isLoading, request,
          toggleRun, lastOp, heap, roots, heapOp, doctorPage,
          slotsEffectPending, slotRequests, bookingRequests>>

catalogVars == <<FIXED_TIME_SLOTS, call>>
initVars == <<scheduleInput, initialized, reinitialized, ipc>>
editVars == <<currentUser, effectPending, formData, isLoading, request, toggleRun, lastOp>>
heapVars == <<heap, roots, heapOp>>
bookVars == <<doctorPage, slotsEffectPending, slotRequests, bookingRequests>>

(***************************************************************************)
(* JavaScript built-ins used by the catalog                                *)
(***************************************************************************)

\* the decimal digit characters, indexed by digit value + 1
Digits == <<"0", "1", "2", "3", "4", "5", "6", "7", "8", "9">>

\* Number.prototype.toString for a non-negative integer
RECURSIVE toString(_)
toString(n) ==
    IF n < 10 THEN <<Digits[n + 1]>>
    ELSE toString(n \div 10) \o <<Digits[(n % 10) + 1]>>

\* String.prototype.padStart with a one-character pad string
RECURSIVE padStart(_, _, _)
padStart(s, targetLength, padString) ==
    IF Len(s) >= targetLength THEN s
    ELSE padStart(<<padString>> \o s, targetLength, padString)

\* value of one digit character
DigitValue(c) == CHOOSE d \in 0..9 : Digits[d + 1] = c

\* Number(string) for a string of decimal digits (the empty string gives 0)
RECURSIVE Number(_)
Number(s) ==
    IF Len(s) = 0 THEN 0
    ELSE Number(SubSeq(s, 1, Len(s) - 1)) * 10 + DigitValue(s[Len(s)])

\* String.prototype.split(separator) with a one-character separator
RECURSIVE split(_, _)
split(s, separator) ==
    IF \A i \in 1..Len(s) : s[i] # separator THEN <<s>>
    ELSE LET i == CHOOSE k \in 1..Len(s) :
                      /\ s[k] = separator
                      /\ \A j \in 1..(k - 1) : s[j] # separator
         IN <<SubSeq(s, 1, i - 1)>> \o split(SubSeq(s, i + 1, Len(s)), separator)

\* Array.prototype.find: the first element satisfying the test, or undefined
undefined == [absent |-> "undefined"]
null == [absent |-> "null"]

find(array, Test(_)) ==
    IF \E i \in 1..Len(array) : Test(array[i])
    THEN array[CHOOSE i \in 1..Len(array) :
                   /\ Test(array[i])
                   /\ \A j \in 1..(i - 1) : ~Test(array[j])]
    ELSE undefined

\* Array.prototype.findIndex: the 0-based index of the first match, or -1
findIndex(array, Test(_)) ==
    IF \E i \in 1..Len(array) : Test(array[i])
    THEN (CHOOSE i \in 1..Len(array) :
              /\ Test(array[i])
              /\ \A j \in 1..(i - 1) : ~Test(array[j])) - 1
    ELSE -1

(***************************************************************************)
(* utils/timeSlots: the slot catalog                                       *)
(***************************************************************************)

startHour == 9
endHour == 21
intervalMinutes == 15

\* `${hour.toString().padStart(2, '0')}:${minute.toString().padStart(2, '0')}`
formatHHMM(hour, minute) ==
    padStart(toString(hour), 2, "0") \o <<":">> \o padStart(toString(minute), 2, "0")

\* the end time of the slot starting at hour:minute, without the minute carry
slotEndTime_noCarry(hour, minute) ==
    formatHHMM(hour, minute + intervalMinutes)

\* the end time of the slot starting at hour:minute (15 minutes later)
slotEndTime(hour, minute) ==
    LET endMinute0 == minute + intervalMinutes
        slotEndHour == IF endMinute0 >= 60 THEN hour + 1 ELSE hour
        endMinute == IF endMinute0 >= 60 THEN endMinute0 - 60 ELSE endMinute0
    IN formatHHMM(slotEndHour, endMinute)

\* the outer loop ran one hour too far
hourLoopCondition_inclusive(hour) == hour <= endHour

\* the condition of the outer loop: for (hour = startHour; hour < endHour; hour++)
hourLoopCondition(hour) == hour < endHour

\* the two nested loops of generateTimeSlots, as a recursion on the loop state
RECURSIVE generateLoop(_, _, _, _)
generateLoop(hour, minute, slotNumber, slots) ==
    IF ~hourLoopCondition(hour) THEN slots
    ELSE IF ~(minute < 60) THEN generateLoop(hour + 1, 0, slotNumber, slots)
    ELSE generateLoop(hour, minute + intervalMinutes, slotNumber + 1,
             Append(slots, [slotNumber |-> slotNumber,
                            startTime |-> formatHHMM(hour, minute),
                            endTime |-> slotEndTime(hour, minute)]))

generateTimeSlots == generateLoop(startHour, 0, 1, <<>>)

\* the block table had its second block start one slot early
TIME_BLOCKS_overlap ==
    << [label |-> "9:00 AM - 11:00 AM", startSlot |-> 1, endSlot |-> 8,
        startTime |-> <<"0","9",":","0","0">>, endTime |-> <<"1","1",":","0","0">>],
       [label |-> "11:00 AM - 1:00 PM", startSlot |-> 8, endSlot |-> 16,
        startTime |-> <<"1","1",":","0","0">>, endTime |-> <<"1","3",":","0","0">>],
       [label |-> "1:00 PM - 3:00 PM", startSlot |-> 17, endSlot |-> 24,
        startTime |-> <<"1","3",":","0","0">>, endTime |-> <<"1","5",":","0","0">>],
       [label |-> "3:00 PM - 5:00 PM", startSlot |-> 25, endSlot |-> 32,
        startTime |-> <<"1","5",":","0","0">>, endTime |-> <<"1","7",":","0","0">>],
       [label |-> "5:00 PM - 7:00 PM", startSlot |-> 33, endSlot |-> 40,
        startTime |-> <<"1","7",":","0","0">>, endTime |-> <<"1","9",":","0","0">>],
       [label |-> "7:00 PM - 9:00 PM", startSlot |-> 41, endSlot |-> 48,
        startTime |-> <<"1","9",":","0","0">>, endTime |-> <<"2","1",":","0","0">>] >>

TIME_BLOCKS ==
    << [label |-> "9:00 AM - 11:00 AM", startSlot |-> 1, endSlot |-> 8,
        startTime |-> <<"0","9",":","0","0">>, endTime |-> <<"1","1",":","0","0">>],
       [label |-> "11:00 AM - 1:00 PM", startSlot |-> 9, endSlot |-> 16,
        startTime |-> <<"1","1",":","0","0">>, endTime |-> <<"1","3",":","0","0">>],
       [label |-> "1:00 PM - 3:00 PM", startSlot |-> 17, endSlot |-> 24,
        startTime |-> <<"1","3",":","0","0">>, endTime |-> <<"1","5",":","0","0">>],
       [label |-> "3:00 PM - 5:00 PM", startSlot |-> 25, endSlot |-> 32,
        startTime |-> <<"1","5",":","0","0">>, endTime |-> <<"1","7",":","0","0">>],
       [label |-> "5:00 PM - 7:00 PM", startSlot |-> 33, endSlot |-> 40,
        startTime |-> <<"1","7",":","0","0">>, endTime |-> <<"1","9",":","0","0">>],
       [label |-> "7:00 PM - 9:00 PM", startSlot |-> 41, endSlot |-> 48,
        startTime |-> <<"1","9",":","0","0">>, endTime |-> <<"2","1",":","0","0">>] >>

\* the range test compared with < instead of <= at the upper end
slotInBlock_exclusive(slotNumber, block) ==
    slotNumber >= block.startSlot /\ slotNumber < block.endSlot

\* slotNumber >= block.startSlot && slotNumber <= block.endSlot
slotInBlock(slotNumber, block) ==
    slotNumber >= block.startSlot /\ slotNumber <= block.endSlot

\* blockIndex < 0 || blockIndex >= TIME_BLOCKS.length
blockIndexOutOfRange(blockIndex) ==
    blockIndex < 0 \/ blockIndex >= Len(TIME_BLOCKS)

\* TIME_BLOCKS[blockIndex]: undefined past the end of the array
blockAt(blockIndex) ==
    IF blockIndex + 1 \in 1..Len(TIME_BLOCKS) THEN TIME_BLOCKS[blockIndex + 1]
    ELSE undefined

getSlotsForBlock(blockIndex) ==
    IF blockIndexOutOfRange(blockIndex) THEN <<>>
    ELSE LET block == blockAt(blockIndex)
             InBlock(slot) == slotInBlock(slot.slotNumber, block)
         IN SelectSeq(FIXED_TIME_SLOTS, InBlock)

getBlockForSlot(slotNumber) ==
    LET Contains(block) == slotInBlock(slotNumber, block)
        found == find(TIME_BLOCKS, Contains)
    IN IF found = undefined THEN null ELSE found

\* the slot was looked up by array position instead of by slotNumber
getSlotByNumber_byIndex(slotNumber) ==
    IF slotNumber + 1 \in 1..Len(FIXED_TIME_SLOTS)
    THEN FIXED_TIME_SLOTS[slotNumber + 1]
    ELSE undefined

getSlotByNumber(slotNumber) ==
    LET Matches(slot) == slot.slotNumber = slotNumber
    IN find(FIXED_TIME_SLOTS, Matches)

\* hour 12 was shown as 0: hours >= 12 ? hours - 12 : hours
displayHours_noon(hours) ==
    IF hours = 0 THEN 12 ELSE IF hours >= 12 THEN hours - 12 ELSE hours

\* hours === 0 ? 12 : hours > 12 ? hours - 12 : hours
displayHours(hours) ==
    IF hours = 0 THEN 12 ELSE IF hours > 12 THEN hours - 12 ELSE hours

formatTime12Hour(time) ==
    LET parts == split(time, ":")
        hours == Number(parts[1])
        minutes == Number(parts[2])
        period == IF hours >= 12 THEN <<"P", "M">> ELSE <<"A", "M">>
    IN toString(displayHours(hours)) \o <<":">>
         \o padStart(toString(minutes), 2, "0") \o <<" ">> \o period

(***************************************************************************)
(* Calls of the exported catalog functions                                 *)
(***************************************************************************)

\* how far outside the valid index and slot-number ranges the arguments go
MaxOutside == 3

\* a slot number far outside the catalog (stale client state)
StaleSlotNumber == 999

BlockIndexArgs == (0 - MaxOutside)..((Len(TIME_BLOCKS) - 1) + MaxOutside)

SlotNumberArgs == ((0 - MaxOutside)..(48 + MaxOutside)) \cup {StaleSlotNumber}

\* the well-formed HH:MM strings, as [hour, minute, time] records
TimeArgs ==
    {[hour |-> h, minute |-> m, time |-> formatHHMM(h, m)] : h \in 0..23, m \in 0..59}

NoCall == [op |-> "none"]

\* no request is awaiting its response
NoRequest == [sent |-> FALSE]

\* no run of toggles of one slot is going on
NoRun == [day |-> "none", slotNumber |-> 0, k |-> 0]

InitCatalogIdle ==
    /\ FIXED_TIME_SLOTS = generateTimeSlots
    /\ call = NoCall

InitScheduleIdle ==
    /\ scheduleInput = <<>>
    /\ initialized = <<>>
    /\ reinitialized = <<>>
    /\ ipc = "idle"

InitEditIdle ==
    /\ currentUser = [role |-> "none", schedule |-> <<>>]
    /\ effectPending = FALSE
    /\ formData = [schedule |-> <<>>]
    /\ isLoading = FALSE
    /\ request = NoRequest
    /\ toggleRun = NoRun
    /\ lastOp = [op |-> "none"]

\* no operation has run on the heap
NoHeapOp == [op |-> "none", count |-> 0, input |-> 0, result |-> 0]

InitHeapIdle ==
    /\ heap = <<>>
    /\ roots = [FIXED_TIME_SLOTS |-> 0, currentUser |-> 0, formData |-> 0,
                cleanedSchedule |-> 0]
    /\ heapOp = NoHeapOp

\* DoctorPage is not mounted
InitBookIdle ==
    /\ doctorPage = [mounted |-> FALSE]
    /\ slotsEffectPending = FALSE
    /\ slotRequests = <<>>
    /\ bookingRequests = <<>>

\* module load: the catalog is generated once
InitCatalog ==
    /\ InitCatalogIdle
    /\ InitScheduleIdle
    /\ InitEditIdle
    /\ InitHeapIdle
    /\ InitBookIdle

CallGetSlotsForBlock ==
    \E blockIndex \in BlockIndexArgs :
        /\ call = NoCall
        /\ call' = [op |-> "getSlotsForBlock", arg |-> blockIndex,
                    result |-> getSlotsForBlock(blockIndex)]
        /\ UNCHANGED <<FIXED_TIME_SLOTS, initVars, editVars, heapVars, bookVars>>

CallGetBlockForSlot ==
    \E slotNumber \in SlotNumberArgs :
        /\ call = NoCall
        /\ call' = [op |-> "getBlockForSlot", arg |-> slotNumber,
                    result |-> getBlockForSlot(slotNumber)]
        /\ UNCHANGED <<FIXED_TIME_SLOTS, initVars, editVars, heapVars, bookVars>>

CallGetSlotByNumber ==
    \E slotNumber \in SlotNumberArgs :
        /\ call = NoCall
        /\ call' = [op |-> "getSlotByNumber", arg |-> slotNumber,
                    result |-> getSlotByNumber(slotNumber)]
        /\ UNCHANGED <<FIXED_TIME_SLOTS, initVars, editVars, heapVars, bookVars>>

CallFormatTime12Hour ==
    \E t \in TimeArgs :
        /\ call = NoCall
        /\ call' = [op |-> "formatTime12Hour", arg |-> t,
                    result |-> formatTime12Hour(t.time)]
        /\ UNCHANGED <<FIXED_TIME_SLOTS, initVars, editVars, heapVars, bookVars>>

\* the caller has taken the result: no call is in progress
ReturnFromCall ==
    /\ call # NoCall
    /\ call' = NoCall
    /\ UNCHANGED <<FIXED_TIME_SLOTS, initVars, editVars, heapVars, bookVars>>

NextCatalog ==
    \/ CallGetSlotsForBlock
    \/ CallGetBlockForSlot
    \/ CallGetSlotByNumber
    \/ CallFormatTime12Hour
    \/ ReturnFromCall

SpecCatalog == InitCatalog /\ [][NextCatalog]_vars

(***************************************************************************)
(* Properties of the slot catalog                                          *)
(***************************************************************************)

\* the set of elements of a sequence
Range(seq) == {seq[i] : i \in 1..Len(seq)}

C2_FifteenMinuteSlots ==
    \A i \in 1..Len(FIXED_TIME_SLOTS) :
        LET slot == FIXED_TIME_SLOTS[i]
            startParts == split(slot.startTime, ":")
            endParts == split(slot.endTime, ":")
            sh == Number(startParts[1])
            sm == Number(startParts[2])
            eh == Number(endParts[1])
            em == Number(endParts[2])
        IN /\ Len(slot.startTime) = 5 /\ Len(slot.endTime) = 5
           /\ Len(startParts) = 2 /\ Len(endParts) = 2
           /\ sm \in 0..59 /\ em \in 0..59
           /\ eh * 60 + em = sh * 60 + sm + 15
           /\ (sm = 45) => (eh = sh + 1 /\ em = 0)
           /\ slot.endTime = formatHHMM(eh, em)
           /\ eh * 60 + em <= 21 * 60
           /\ sh * 60 + sm < 21 * 60

\* a slot starting at 09:45 has been looked up and ends at 10:00
C2_Witness ==
    /\ call.op = "getSlotByNumber"
    /\ call.result # undefined
    /\ call.result.startTime = <<"0", "9", ":", "4", "5">>
    /\ call.result.endTime = <<"1", "0", ":", "0", "0">>

\* C3: the six blocks partition the catalog: every slot number 1..48 lies in
\* the range of exactly one block and no block range leaves 1..48.
C3_BlocksPartition ==
    /\ Len(TIME_BLOCKS) = 6
    /\ \A n \in 1..48 :
           Cardinality({b \in 1..Len(TIME_BLOCKS) :
                            TIME_BLOCKS[b].startSlot <= n /\ n <= TIME_BLOCKS[b].endSlot}) = 1
    /\ \A i \in 1..Len(FIXED_TIME_SLOTS) :
           Cardinality({b \in 1..Len(TIME_BLOCKS) :
                            /\ TIME_BLOCKS[b].startSlot <= FIXED_TIME_SLOTS[i].slotNumber
                            /\ FIXED_TIME_SLOTS[i].slotNumber <= TIME_BLOCKS[b].endSlot}) = 1
    /\ \A b \in 1..Len(TIME_BLOCKS) :
           /\ 1 <= TIME_BLOCKS[b].startSlot
           /\ TIME_BLOCKS[b].startSlot <= TIME_BLOCKS[b].endSlot
           /\ TIME_BLOCKS[b].endSlot <= 48

\* the first slot of the second block has been resolved to the second block
C3_Witness ==
    /\ call.op = "getBlockForSlot"
    /\ call.arg = 9
    /\ call.result = TIME_BLOCKS[2]

\* C4: getSlotsForBlock(i) returns, for i in 0..5, exactly the 8 catalog slots
\* whose slotNumber lies in the block's inclusive range, ascending; for every
\* other integer index it returns the empty sequence.
C4_SlotsForBlock ==
    (call.op = "getSlotsForBlock") =>
        IF call.arg \in 0..5
        THEN LET block == TIME_BLOCKS[call.arg + 1] IN
             /\ Len(call.result) = 8
             /\ Range(call.result) =
                    {slot \in Range(FIXED_TIME_SLOTS) :
                         block.startSlot <= slot.slotNumber /\ slot.slotNumber <= block.endSlot}
             /\ \A k \in 1..(Len(call.result) - 1) :
                    call.result[k].slotNumber < call.result[k + 1].slotNumber
        ELSE call.result = <<>>

\* the last block has been asked for and gave slots 41..48
C4_Witness ==
    /\ call.op = "getSlotsForBlock"
    /\ call.arg = 5
    /\ Len(call.result) = 8
    /\ call.result[1].slotNumber = 41
    /\ call.result[8].slotNumber = 48

\* an index outside 0..5 has been asked for and gave the empty sequence
C4_WitnessOutOfRange ==
    /\ call.op = "getSlotsForBlock"
    /\ call.arg = 6
    /\ call.result = <<>>

\* C5: getSlotByNumber(n) returns the catalog slot numbered n for 1 <= n <= 48
\* and undefined for every other integer; getBlockForSlot(n) returns the block
\* whose range contains n for 1 <= n <= 48 and null for every other integer.
C5_LookupsTotal ==
    /\ (call.op = "getSlotByNumber") =>
           IF call.arg \in 1..48
           THEN /\ call.result \in Range(FIXED_TIME_SLOTS)
                /\ call.result.slotNumber = call.arg
           ELSE call.result = undefined
    /\ (call.op = "getBlockForSlot") =>
           IF call.arg \in 1..48
           THEN /\ call.result \in Range(TIME_BLOCKS)
                /\ call.result.startSlot <= call.arg
                /\ call.arg <= call.result.endSlot
           ELSE call.result = null

\* a stale slot number has been looked up and gave undefined
C5_Witness ==
    /\ call.op = "getSlotByNumber"
    /\ call.arg = StaleSlotNumber
    /\ call.result = undefined

\* the text of a display hour 1..12, without a leading zero
HourText(h) == IF h < 10 THEN <<Digits[h + 1]>> ELSE <<"1", Digits[(h - 10) + 1]>>

\* C6: formatTime12Hour shows hour 0 as 12, hours 13..23 as hour-12, other
\* hours unchanged without leading zero, minutes as two digits, and AM for
\* hours 0..11, PM for hours 12..23.
C6_Format12Hour ==
    (call.op = "formatTime12Hour") =>
        LET h == call.arg.hour
            m == call.arg.minute
            shown == IF h = 0 THEN 12 ELSE IF h \in 13..23 THEN h - 12 ELSE h
            suffix == IF h \in 0..11 THEN <<"A", "M">> ELSE <<"P", "M">>
        IN /\ call.result = HourText(shown) \o <<":">>
                              \o <<Digits[(m \div 10) + 1], Digits[(m % 10) + 1]>>
                              \o <<" ">> \o suffix
           /\ (call.arg.time = <<"0", "0", ":", "0", "0">>)
                  => call.result = <<"1", "2", ":", "0", "0", " ", "A", "M">>
           /\ (call.arg.time = <<"0", "9", ":", "0", "0">>)
                  => call.result = <<"9", ":", "0", "0", " ", "A", "M">>
           /\ (call.arg.time = <<"1", "2", ":", "0", "0">>)
                  => call.result = <<"1", "2", ":", "0", "0", " ", "P", "M">>
           /\ (call.arg.time = <<"1", "3", ":", "1", "5">>)
                  => call.result = <<"1", ":", "1", "5", " ", "P", "M">>
           /\ (call.arg.time = <<"2", "3", ":", "4", "5">>)
                  => call.result = <<"1", "1", ":", "4", "5", " ", "P", "M">>

\* noon has been formatted and shows as 12:00 PM
C6_Witness ==
    /\ call.op = "formatTime12Hour"
    /\ call.arg.time = <<"1", "2", ":", "0", "0">>
    /\ call.result = <<"1", "2", ":", "0", "0", " ", "P", "M">>

(***************************************************************************)
(* pages/DoctorProfile: initializeSchedule                                 *)
(***************************************************************************)

\* Array.prototype.map
map(array, F(_)) == [i \in 1..Len(array) |-> F(array[i])]

days == <<"Monday", "Tuesday", "Wednesday", "Thursday", "Friday", "Saturday", "Sunday">>

\* slot.isAvailable ?? true, for a slot that may lack the isAvailable field
isAvailableOrDefault(slot) ==
    IF "isAvailable" \in DOMAIN slot THEN slot.isAvailable ELSE TRUE

\* the availability flag was overwritten instead of defaulted
carrySlot_alwaysAvailable(slot) ==
    [slotNumber |-> slot.slotNumber, startTime |-> slot.startTime,
     endTime |-> slot.endTime, isAvailable |-> TRUE]

\* the slot object built for an existing slot
carrySlot(slot) ==
    [slotNumber |-> slot.slotNumber, startTime |-> slot.startTime,
     endTime |-> slot.endTime, isAvailable |-> isAvailableOrDefault(slot)]

\* the last slot of an existing day was left out
carrySlots_dropLast(slots) ==
    [k \in 1..(IF Len(slots) = 0 THEN 0 ELSE Len(slots) - 1) |-> carrySlot(slots[k])]

\* existingDay.slots.map(slot => ({...}))
carrySlots(slots) == map(slots, carrySlot)

\* existingSchedule.find(s => s.day === day)
findExistingDay(existingSchedule, day) ==
    LET IsDay(s) == s.day = day IN find(existingSchedule, IsDay)

\* the entry of one weekday in the initialized schedule
initializeDay(existingSchedule, day) ==
    LET existingDay == findExistingDay(existingSchedule, day)
    IN IF existingDay # undefined
       THEN [day |-> day, slots |-> carrySlots(existingDay.slots)]
       ELSE [day |-> day, slots |-> <<>>]

\* the existing entries were mapped instead of the seven weekdays
initializeSchedule_existingOnly(existingSchedule) ==
    [i \in 1..Len(existingSchedule) |->
        [day |-> existingSchedule[i].day, slots |-> carrySlots(existingSchedule[i].slots)]]

initializeSchedule(existingSchedule) ==
    [i \in 1..Len(days) |-> initializeDay(existingSchedule, days[i])]

(***************************************************************************)
(* Inputs of initializeSchedule: schedules as the backend may return them  *)
(***************************************************************************)

\* longest input collection, and most slots in one input collection
MaxInputLen == 2
MaxInputSlots == 2

\* a catalog slot, and a slot stored with the times of the old hourly layout
InputSlotTimes ==
    { [slotNumber |-> 1, startTime |-> <<"0", "9", ":", "0", "0">>,
       endTime |-> <<"0", "9", ":", "1", "5">>],
      [slotNumber |-> 2, startTime |-> <<"1", "0", ":", "0", "0">>,
       endTime |-> <<"1", "1", ":", "0", "0">>] }

\* each with isAvailable true, false or absent
InputSlots ==
    InputSlotTimes
    \cup {[slotNumber |-> t.slotNumber, startTime |-> t.startTime, endTime |-> t.endTime,
           isAvailable |-> a] : t \in InputSlotTimes, a \in BOOLEAN}

InputDays == {"Monday", "Sunday"}

\* the collections of exactly len entries holding at most maxSlots slots in all;
\* an entry may repeat a weekday and the entries come in any order
RECURSIVE InputSchedulesOfLen(_, _)
InputSchedulesOfLen(len, maxSlots) ==
    IF len = 0 THEN {<<>>}
    ELSE UNION {{<<[day |-> d, slots |-> sl]>> \o rest :
                    d \in InputDays, sl \in [1..k -> InputSlots],
                    rest \in InputSchedulesOfLen(len - 1, maxSlots - k)} :
                k \in 0..maxSlots}

InputSchedules(maxLen, maxSlots) ==
    UNION {InputSchedulesOfLen(len, maxSlots) : len \in 0..maxLen}

InitSchedule ==
    /\ InitCatalogIdle
    /\ InitEditIdle
    /\ scheduleInput \in InputSchedules(MaxInputLen, MaxInputSlots)
    /\ initialized = <<>>
    /\ reinitialized = <<>>
    /\ ipc = "start"
    /\ InitHeapIdle
    /\ InitBookIdle

RunInitializeSchedule ==
    /\ ipc = "start"
    /\ initialized' = initializeSchedule(scheduleInput)
    /\ ipc' = "initialized"
    /\ UNCHANGED <<scheduleInput, reinitialized, catalogVars, editVars, heapVars, bookVars>>

RunReinitializeSchedule ==
    /\ ipc = "initialized"
    /\ reinitialized' = initializeSchedule(initialized)
    /\ ipc' = "done"
    /\ UNCHANGED <<scheduleInput, initialized, catalogVars, editVars, heapVars, bookVars>>

NextSchedule ==
    \/ RunInitializeSchedule
    \/ RunReinitializeSchedule

SpecSchedule == InitSchedule /\ [][NextSchedule]_vars

(***************************************************************************)
(* Properties of initializeSchedule                                        *)
(***************************************************************************)

\* the indexes of the input entries that are the first of their weekday
FirstOfDay(schedule) ==
    {j \in 1..Len(schedule) :
        \A h \in 1..(j - 1) : schedule[h].day # schedule[j].day}

\* the output day `out` carries the slots of the input entry `entry`: same
\* number and order, same slotNumber and times, isAvailable defaulted to TRUE
\* when absent and kept otherwise
Carries(out, entry) ==
    /\ Len(out.slots) = Len(entry.slots)
    /\ \A k \in 1..Len(entry.slots) :
           /\ out.slots[k].slotNumber = entry.slots[k].slotNumber
           /\ out.slots[k].startTime = entry.slots[k].startTime
           /\ out.slots[k].endTime = entry.slots[k].endTime
           /\ out.slots[k].isAvailable =
                  (IF "isAvailable" \in DOMAIN entry.slots[k]
                   THEN entry.slots[k].isAvailable ELSE TRUE)

\* C7: initializeSchedule returns exactly seven entries, Monday..Sunday in
\* that order, for every input (empty, partial, any order, repeated weekdays),
\* with an empty slot list for every weekday without an input entry.
C7_SevenDays ==
    (ipc \in {"initialized", "done"}) =>
        /\ Len(initialized) = 7
        /\ [i \in 1..7 |-> initialized[i].day] =
               <<"Monday", "Tuesday", "Wednesday", "Thursday", "Friday", "Saturday", "Sunday">>
        /\ \A i \in 1..7 :
               (\A j \in 1..Len(scheduleInput) : scheduleInput[j].day # initialized[i].day)
                   => initialized[i].slots = <<>>

\* an input naming the same weekday twice has been initialized to seven days
C7_Witness ==
    /\ ipc = "initialized"
    /\ Len(scheduleInput) = 2
    /\ scheduleInput[1].day = "Sunday"
    /\ scheduleInput[2].day = "Sunday"
    /\ Len(initialized) = 7

\* C8 as stated: every input entry has all its slots carried over to the
\* output day of its weekday.
C8_EveryEntryCarried ==
    (ipc \in {"initialized", "done"}) =>
        \A j \in 1..Len(scheduleInput) :
            \A i \in 1..Len(initialized) :
                (initialized[i].day = scheduleInput[j].day)
                    => Carries(initialized[i], scheduleInput[j])

\* C8 amended: the first input entry of each weekday has all its slots carried
\* over to the output day of that weekday (same order, slotNumber and times,
\* isAvailable defaulted to true when absent, kept otherwise); an output day
\* holds nothing but the slots of that first entry.
C8_FirstEntryCarried ==
    (ipc \in {"initialized", "done"}) =>
        \A j \in FirstOfDay(scheduleInput) :
            /\ \E i \in 1..Len(initialized) : initialized[i].day = scheduleInput[j].day
            /\ \A i \in 1..Len(initialized) :
                   (initialized[i].day = scheduleInput[j].day)
                       => Carries(initialized[i], scheduleInput[j])

\* an entry with a slot lacking isAvailable followed by an unavailable slot has
\* been carried over, defaulted to true and kept false
C8_Witness ==
    /\ ipc = "initialized"
    /\ \E j \in FirstOfDay(scheduleInput) :
           /\ Len(scheduleInput[j].slots) = 2
           /\ "isAvailable" \notin DOMAIN scheduleInput[j].slots[1]
           /\ "isAvailable" \in DOMAIN scheduleInput[j].slots[2]
           /\ scheduleInput[j].slots[2].isAvailable = FALSE
           /\ \E i \in 1..Len(initialized) :
                  /\ initialized[i].day = scheduleInput[j].day
                  /\ Len(initialized[i].slots) = 2
                  /\ initialized[i].slots[1].isAvailable = TRUE
                  /\ initialized[i].slots[2].isAvailable = FALSE

EmptyWeek ==
    << [day |-> "Monday", slots |-> <<>>], [day |-> "Tuesday", slots |-> <<>>],
       [day |-> "Wednesday", slots |-> <<>>], [day |-> "Thursday", slots |-> <<>>],
       [day |-> "Friday", slots |-> <<>>], [day |-> "Saturday", slots |-> <<>>],
       [day |-> "Sunday", slots |-> <<>>] >>

\* C9: initializeSchedule is idempotent: initializing its own output gives the
\* same structure; the empty input gives seven days with empty slots, and so
\* does initializing that output again.
C9_Idempotent ==
    /\ (ipc = "done") => reinitialized = initialized
    /\ (ipc \in {"initialized", "done"} /\ scheduleInput = <<>>) => initialized = EmptyWeek
    /\ (ipc = "done" /\ scheduleInput = <<>>) => reinitialized = EmptyWeek

\* an input with a default-filled slot has been initialized twice
C9_Witness ==
    /\ ipc = "done"
    /\ \E j \in 1..Len(scheduleInput) :
           \E k \in 1..Len(scheduleInput[j].slots) :
               "isAvailable" \notin DOMAIN scheduleInput[j].slots[k]
    /\ \E i \in 1..Len(reinitialized) : Len(reinitialized[i].slots) > 0

(***************************************************************************)
(* pages/DoctorProfile: the schedule editor                                *)
(***************************************************************************)

\* truthiness of slot.isAvailable (an absent field is undefined, hence falsy)
isAvailableTruthy(slot) ==
    IF "isAvailable" \in DOMAIN slot THEN slot.isAvailable ELSE FALSE

\* the toggled slot was always switched off
flipSlot_switchOff(slot) ==
    [f \in (DOMAIN slot) \cup {"isAvailable"} |->
        IF f = "isAvailable" THEN FALSE ELSE slot[f]]

\* { ...slot, isAvailable: !slot.isAvailable }
flipSlot(slot) ==
    [f \in (DOMAIN slot) \cup {"isAvailable"} |->
        IF f = "isAvailable" THEN ~isAvailableTruthy(slot) ELSE slot[f]]

\* { ...fixedSlot, isAvailable: true }
newSlot(fixedSlot) ==
    [f \in (DOMAIN fixedSlot) \cup {"isAvailable"} |->
        IF f = "isAvailable" THEN TRUE ELSE fixedSlot[f]]

\* one insertion of the stable sort: x goes behind every element not above it
insertBySlotNumber(sorted, x) ==
    LET k == Cardinality({i \in 1..Len(sorted) : sorted[i].slotNumber <= x.slotNumber})
    IN SubSeq(sorted, 1, k) \o <<x>> \o SubSeq(sorted, k + 1, Len(sorted))

\* Array.prototype.sort((a, b) => a.slotNumber - b.slotNumber), which is stable
RECURSIVE sortBySlotNumber(_)
sortBySlotNumber(slots) ==
    IF Len(slots) = 0 THEN <<>>
    ELSE insertBySlotNumber(sortBySlotNumber(SubSeq(slots, 1, Len(slots) - 1)),
                            slots[Len(slots)])

\* the new slot was appended and the list left unsorted
insertNewSlot_unsorted(slots, fixedSlot) ==
    Append(slots, newSlot(fixedSlot))

\* [...scheduleDay.slots, { ...fixedSlot, isAvailable: true }].sort(...)
insertNewSlot(slots, fixedSlot) ==
    sortBySlotNumber(Append(slots, newSlot(fixedSlot)))

\* an available slot was taken out of the day instead of being switched off
toggleDay_removeWhenOff(scheduleDay, slotNumber) ==
    LET Matches(s) == s.slotNumber = slotNumber
        Others(s) == s.slotNumber # slotNumber
        existingSlotIndex == findIndex(scheduleDay.slots, Matches)
        fixedSlot == find(FIXED_TIME_SLOTS, Matches)
    IN IF existingSlotIndex >= 0
       THEN IF isAvailableTruthy(scheduleDay.slots[existingSlotIndex + 1])
            THEN [scheduleDay EXCEPT !.slots = SelectSeq(@, Others)]
            ELSE [scheduleDay EXCEPT !.slots =
                     [@ EXCEPT ![existingSlotIndex + 1] = flipSlot(@)]]
       ELSE IF fixedSlot # undefined
       THEN [scheduleDay EXCEPT !.slots = insertNewSlot(@, fixedSlot)]
       ELSE scheduleDay

\* a slot already in the day was added once more instead of being flipped
toggleDay_addAgain(scheduleDay, slotNumber) ==
    LET Matches(s) == s.slotNumber = slotNumber
        fixedSlot == find(FIXED_TIME_SLOTS, Matches)
    IN IF fixedSlot # undefined
       THEN [scheduleDay EXCEPT !.slots = insertNewSlot(@, fixedSlot)]
       ELSE scheduleDay

\* the body of the map callback for the entry of the targeted day
toggleDay(scheduleDay, slotNumber) ==
    LET Matches(s) == s.slotNumber = slotNumber
        existingSlotIndex == findIndex(scheduleDay.slots, Matches)
        fixedSlot == find(FIXED_TIME_SLOTS, Matches)
    IN IF existingSlotIndex >= 0
       THEN [scheduleDay EXCEPT !.slots =
                [@ EXCEPT ![existingSlotIndex + 1] = flipSlot(@)]]
       ELSE IF fixedSlot # undefined
       THEN [scheduleDay EXCEPT !.slots = insertNewSlot(@, fixedSlot)]
       ELSE scheduleDay

\* the slot was toggled in the entry of every weekday
toggleSchedule_everyDay(schedule, day, slotNumber) ==
    [i \in 1..Len(schedule) |-> toggleDay(schedule[i], slotNumber)]

\* updatedSchedule of toggleSlotAvailability
toggleSchedule(schedule, day, slotNumber) ==
    [i \in 1..Len(schedule) |->
        IF schedule[i].day = day THEN toggleDay(schedule[i], slotNumber)
        ELSE schedule[i]]

\* longest schedule of the logged-in doctor, and most slots in it
MaxUserLen == 1
MaxUserSlots == 1

\* a slot stored under a catalog that reached past 21:00
StaleInputSlot ==
    [slotNumber |-> StaleSlotNumber, startTime |-> <<"2", "1", ":", "0", "0">>,
     endTime |-> <<"2", "1", ":", "1", "5">>, isAvailable |-> TRUE]

\* the users the page is opened by: a doctor with a stored schedule, a doctor
\* whose stored schedule holds the stale slot, or a patient (for whom the
\* profile is not loaded)
Users ==
    {[role |-> "doctor", schedule |-> x] : x \in InputSchedules(MaxUserLen, MaxUserSlots)}
    \cup {[role |-> "doctor", schedule |-> <<[day |-> d, slots |-> <<StaleInputSlot>>]>>] :
              d \in InputDays}
    \cup {[role |-> "patient", schedule |-> <<>>]}

\* the users whose saves are followed: a doctor without a stored schedule, a
\* doctor with a stored Monday (a slot without isAvailable, then an
\* unavailable slot of the old hourly layout), and a patient
SaveUsers ==
    { [role |-> "doctor", schedule |-> <<>>],
      [role |-> "doctor",
       schedule |-> << [day |-> "Monday",
                        slots |-> << [slotNumber |-> 1,
                                      startTime |-> <<"0", "9", ":", "0", "0">>,
                                      endTime |-> <<"0", "9", ":", "1", "5">>],
                                     [slotNumber |-> 2,
                                      startTime |-> <<"1", "0", ":", "0", "0">>,
                                      endTime |-> <<"1", "1", ":", "0", "0">>,
                                      isAvailable |-> FALSE] >>] >>],
      [role |-> "patient", schedule |-> <<>>] }

\* the weekdays and slot numbers the doctor clicks
ToggleDays == {"Monday", "Sunday"}
ToggleSlotNumbers == {1, 2, StaleSlotNumber}

\* longest run of consecutive toggles of one slot that is followed
MaxToggleRun == 3

\* most toggles followed while one request awaits its response
MaxInFlightToggles == 1

\* the filter on isAvailable was left out
getSelectedSlotsForDay_all(schedule, day) ==
    LET IsDay(s) == s.day = day
        SlotNumberOf(slot) == slot.slotNumber
        scheduleDay == find(schedule, IsDay)
    IN IF scheduleDay = undefined THEN <<>>
       ELSE map(scheduleDay.slots, SlotNumberOf)

\* getSelectedSlotsForDay, on the schedule of formData
getSelectedSlotsForDay(schedule, day) ==
    LET IsDay(s) == s.day = day
        SlotNumberOf(slot) == slot.slotNumber
        scheduleDay == find(schedule, IsDay)
    IN IF scheduleDay = undefined THEN <<>>
       ELSE map(SelectSeq(scheduleDay.slots, isAvailableTruthy), SlotNumberOf)

\* only the first of the day's available slots was submitted
cleanDay_firstOnly(day) ==
    LET kept == SelectSeq(day.slots, isAvailableTruthy)
    IN [day EXCEPT !.slots = IF Len(kept) > 1 THEN <<kept[1]>> ELSE kept]

\* every slot was kept in the submitted day
cleanDay_keepAll(day) == day

\* { ...day, slots: day.slots.filter(slot => slot.isAvailable) }
cleanDay(day) == [day EXCEPT !.slots = SelectSeq(@, isAvailableTruthy)]

\* days without slots were submitted too
dayHasSlots_always(day) == TRUE

\* day.slots.length > 0
dayHasSlots(day) == Len(day.slots) > 0

\* cleanedSchedule of handleSubmit
cleanSchedule(schedule) == SelectSeq(map(schedule, cleanDay), dayHasSlots)

\* the component is mounted: useState initial values, effect not yet run
InitEdit ==
    /\ InitCatalogIdle
    /\ InitScheduleIdle
    /\ currentUser \in Users
    /\ effectPending = TRUE
    /\ formData = [schedule |-> <<>>]
    /\ isLoading = FALSE
    /\ request = NoRequest
    /\ toggleRun = NoRun
    /\ lastOp = [op |-> "none"]
    /\ InitHeapIdle
    /\ InitBookIdle

\* the effect on [currentUser]: fetchUserProfile
FetchUserProfile ==
    /\ effectPending
    /\ effectPending' = FALSE
    /\ IF currentUser.role = "doctor"
       THEN formData' = [formData EXCEPT !.schedule = initializeSchedule(currentUser.schedule)]
       ELSE UNCHANGED formData
    /\ isLoading' = FALSE
    /\ toggleRun' = NoRun
    /\ lastOp' = [op |-> "fetchUserProfile"]
    /\ UNCHANGED <<currentUser, request, catalogVars, initVars, heapVars, bookVars>>

\* the day has an entry in the schedule and that entry has no slot numbered so
slotAbsent(schedule, day, slotNumber) ==
    /\ \E i \in 1..Len(schedule) : schedule[i].day = day
    /\ \A i \in 1..Len(schedule) :
           (schedule[i].day = day)
               => \A k \in 1..Len(schedule[i].slots) :
                      schedule[i].slots[k].slotNumber # slotNumber

\* the run of toggles after one more toggle of (day, slotNumber)
nextRun(run, schedule, day, slotNumber) ==
    IF run.day = day /\ run.slotNumber = slotNumber /\ run.k >= 1
    THEN [run EXCEPT !.k = @ + 1]
    ELSE IF /\ slotAbsent(schedule, day, slotNumber)
            /\ \E i \in 1..Len(FIXED_TIME_SLOTS) :
                   FIXED_TIME_SLOTS[i].slotNumber = slotNumber
    THEN [day |-> day, slotNumber |-> slotNumber, k |-> 1]
    ELSE NoRun

ToggleSlotAvailability ==
    \E day \in ToggleDays, slotNumber \in ToggleSlotNumbers :
        /\ ~effectPending
        /\ ~(toggleRun.day = day /\ toggleRun.slotNumber = slotNumber
               /\ toggleRun.k >= MaxToggleRun)
        /\ request.sent => request.toggles < MaxInFlightToggles
        /\ formData' = [formData EXCEPT !.schedule = toggleSchedule(@, day, slotNumber)]
        /\ request' = IF request.sent THEN [request EXCEPT !.toggles = @ + 1] ELSE request
        /\ toggleRun' = nextRun(toggleRun, formData.schedule, day, slotNumber)
        /\ lastOp' = [op |-> "toggleSlotAvailability", day |-> day,
                      slotNumber |-> slotNumber]
        /\ UNCHANGED <<currentUser, effectPending, isLoading, catalogVars, initVars,
                       heapVars, bookVars>>

\* handleSubmit up to the await: the contact number (not part of this model)
\* is either accepted or rejected; the Save button is disabled while isLoading
HandleSubmit ==
    \E contactNumberOk \in BOOLEAN :
        /\ ~effectPending
        /\ ~isLoading
        /\ IF contactNumberOk
           THEN /\ isLoading' = TRUE
                /\ request' = [sent |-> TRUE, toggles |-> 0,
                               schedule |-> cleanSchedule(formData.schedule)]
           ELSE UNCHANGED <<isLoading, request>>
        /\ toggleRun' = NoRun
        /\ lastOp' = [op |-> "handleSubmit", sent |-> contactNumberOk]
        /\ UNCHANGED <<currentUser, effectPending, formData, catalogVars, initVars,
                       heapVars, bookVars>>

\* handleSubmit after the await: the backend answers with the updated profile,
\* whose schedule is the submitted one
HandleSubmitResponse ==
    /\ request.sent
    /\ currentUser' = [currentUser EXCEPT !.schedule = request.schedule]
    /\ effectPending' = TRUE
    /\ formData' = [formData EXCEPT !.schedule = initializeSchedule(request.schedule)]
    /\ isLoading' = FALSE
    /\ request' = NoRequest
    /\ toggleRun' = NoRun
    /\ lastOp' = [op |-> "handleSubmitResponse", ok |-> TRUE]
    /\ UNCHANGED <<catalogVars, initVars, heapVars, bookVars>>

\* handleSubmit after the await, when updateDoctorProfile throws
HandleSubmitError ==
    /\ request.sent
    /\ isLoading' = FALSE
    /\ request' = NoRequest
    /\ toggleRun' = NoRun
    /\ lastOp' = [op |-> "handleSubmitResponse", ok |-> FALSE]
    /\ UNCHANGED <<currentUser, effectPending, formData, catalogVars, initVars,
                   heapVars, bookVars>>

NextEdit ==
    \/ FetchUserProfile
    \/ ToggleSlotAvailability

SpecEdit == InitEdit /\ [][NextEdit]_vars

\* the component is mounted for a user whose saves are followed
InitSave ==
    /\ InitCatalogIdle
    /\ InitScheduleIdle
    /\ currentUser \in SaveUsers
    /\ effectPending = TRUE
    /\ formData = [schedule |-> <<>>]
    /\ isLoading = FALSE
    /\ request = NoRequest
    /\ toggleRun = NoRun
    /\ lastOp = [op |-> "none"]
    /\ InitHeapIdle
    /\ InitBookIdle

NextSave ==
    \/ FetchUserProfile
    \/ ToggleSlotAvailability
    \/ HandleSubmit
    \/ HandleSubmitResponse
    \/ HandleSubmitError

SpecSave == InitSave /\ [][NextSave]_vars

(***************************************************************************)
(* Properties of the schedule editor                                       *)
(*                                                                         *)
(* Every handler action sets lastOp, so a step is a call of                *)
(* toggleSlotAvailability(day, n) exactly when it is not a stuttering step *)
(* and lastOp' names that call.                                            *)
(***************************************************************************)

\* the slot list `after` is the slot list `before` with the isAvailable of
\* exactly one entry numbered slotNumber negated and nothing else changed
OneFlipped(before, after, slotNumber) ==
    /\ Len(after) = Len(before)
    /\ \A k \in 1..Len(before) :
           /\ after[k].slotNumber = before[k].slotNumber
           /\ after[k].startTime = before[k].startTime
           /\ after[k].endTime = before[k].endTime
    /\ \E k \in 1..Len(before) :
           /\ before[k].slotNumber = slotNumber
           /\ after[k].isAvailable = ~before[k].isAvailable
           /\ \A j \in (1..Len(before)) \ {k} :
                  after[j].isAvailable = before[j].isAvailable

C10_ToggleStep ==
    (lastOp'.op = "toggleSlotAvailability") =>
        /\ Len(formData'.schedule) = Len(formData.schedule)
        /\ \A i \in 1..Len(formData.schedule) :
               (/\ formData.schedule[i].day = lastOp'.day
                /\ \E k \in 1..Len(formData.schedule[i].slots) :
                       formData.schedule[i].slots[k].slotNumber = lastOp'.slotNumber)
                   => /\ formData'.schedule[i].day = formData.schedule[i].day
                      /\ OneFlipped(formData.schedule[i].slots,
                                    formData'.schedule[i].slots, lastOp'.slotNumber)

\* C10: toggleSlotAvailability(day, n) on a day that already has an entry
\* numbered n flips the isAvailable of that entry and changes nothing else in
\* the day: number, order, slotNumbers, times and the isAvailable of every
\* other entry stay as they were.
C10_ToggleExistingFlips == [][C10_ToggleStep]_vars

\* the last toggle hit an existing entry of its day and switched it off
C10_Witness ==
    /\ lastOp.op = "toggleSlotAvailability"
    /\ \E i \in 1..Len(formData.schedule) :
           /\ formData.schedule[i].day = lastOp.day
           /\ Len(formData.schedule[i].slots) >= 2
           /\ \E k \in 1..Len(formData.schedule[i].slots) :
                  /\ formData.schedule[i].slots[k].slotNumber = lastOp.slotNumber
                  /\ formData.schedule[i].slots[k].isAvailable = FALSE
           /\ \E k \in 1..Len(formData.schedule[i].slots) :
                  /\ formData.schedule[i].slots[k].slotNumber # lastOp.slotNumber
                  /\ formData.schedule[i].slots[k].isAvailable = TRUE

\* how often the slot occurs in the slot list
Occurrences(slots, slot) == Cardinality({k \in 1..Len(slots) : slots[k] = slot})

\* the slot list is in ascending order of slotNumber
Ascending(slots) ==
    \A a, b \in 1..Len(slots) : (a < b) => slots[a].slotNumber <= slots[b].slotNumber

\* slotNumber is a slot number of the catalog
InCatalog(slotNumber) ==
    \E i \in 1..Len(FIXED_TIME_SLOTS) : FIXED_TIME_SLOTS[i].slotNumber = slotNumber

\* the entry a toggle adds for slotNumber: the catalog's times, available
CatalogEntry(slotNumber) ==
    LET fixedSlot == getSlotByNumber(slotNumber)
    IN [slotNumber |-> slotNumber, startTime |-> fixedSlot.startTime,
        endTime |-> fixedSlot.endTime, isAvailable |-> TRUE]

C11_ToggleStep ==
    (lastOp'.op = "toggleSlotAvailability" /\ InCatalog(lastOp'.slotNumber)) =>
        /\ Len(formData'.schedule) = Len(formData.schedule)
        /\ \A i \in 1..Len(formData.schedule) :
               (/\ formData.schedule[i].day = lastOp'.day
                /\ \A k \in 1..Len(formData.schedule[i].slots) :
                       formData.schedule[i].slots[k].slotNumber # lastOp'.slotNumber)
                   => LET before == formData.schedule[i].slots
                          after == formData'.schedule[i].slots
                          added == CatalogEntry(lastOp'.slotNumber)
                      IN /\ Len(after) = Len(before) + 1
                         /\ Occurrences(after, added) = 1
                         /\ \A k \in 1..Len(after) :
                                (after[k].slotNumber = lastOp'.slotNumber) => after[k] = added
                         /\ \A k \in 1..Len(before) :
                                Occurrences(after, before[k]) = Occurrences(before, before[k])
                         /\ Ascending(after)

\* C11: toggleSlotAvailability(day, n) for a slot number n of the catalog that
\* the day does not hold adds exactly one entry, with the catalog's startTime
\* and endTime for n and isAvailable true, keeps every previous entry of the
\* day, and leaves the day's list in ascending order of slotNumber.
C11_ToggleAbsentInserts == [][C11_ToggleStep]_vars

\* slot 1 has just been added, by a first toggle, in front of a slot the day
\* held before
C11_Witness ==
    /\ lastOp.op = "toggleSlotAvailability"
    /\ toggleRun = [day |-> lastOp.day, slotNumber |-> 1, k |-> 1]
    /\ \E i \in 1..Len(formData.schedule) :
           /\ formData.schedule[i].day = lastOp.day
           /\ Len(formData.schedule[i].slots) = 2
           /\ formData.schedule[i].slots[1] = CatalogEntry(1)
           /\ formData.schedule[i].slots[2].slotNumber = 2

C12_ToggleStep ==
    (lastOp'.op = "toggleSlotAvailability" /\ ~InCatalog(lastOp'.slotNumber)) =>
        formData'.schedule = formData.schedule

\* C12: toggleSlotAvailability(day, n) with a slot number n that is not in the
\* catalog leaves every editing schedule as it was: no day entry, and no slot
\* of the targeted day, is changed.
C12_ToggleUnknownIsNoOp == [][C12_ToggleStep]_vars

C13_ToggleStep ==
    (lastOp'.op = "toggleSlotAvailability") =>
        /\ Len(formData'.schedule) = Len(formData.schedule)
        /\ \A i \in 1..Len(formData.schedule) :
               /\ formData'.schedule[i].day = formData.schedule[i].day
               /\ (formData.schedule[i].day # lastOp'.day)
                      => formData'.schedule[i] = formData.schedule[i]

\* C13: toggleSlotAvailability(day, n) changes the entry of the targeted
\* weekday only: the schedule has the same day entries in the same order after
\* the call, and the entry of every other weekday is as it was.
C13_ToggleOnlyTargetDay == [][C13_ToggleStep]_vars

\* a slot has just been added to Monday while Sunday holds a loaded slot
C13_Witness ==
    /\ lastOp.op = "toggleSlotAvailability"
    /\ lastOp.day = "Monday"
    /\ toggleRun.day = "Monday" /\ toggleRun.k = 1
    /\ Len(formData.schedule) = 7
    /\ Len(formData.schedule[1].slots) = 1
    /\ Len(formData.schedule[7].slots) = 1
    /\ \A i \in 2..6 : formData.schedule[i].slots = <<>>

\* the slots of the day's entry that are numbered slotNumber
SlotsNumbered(schedule, day, slotNumber) ==
    LET IsDay(s) == s.day = day
        Matches(s) == s.slotNumber = slotNumber
        scheduleDay == find(schedule, IsDay)
    IN IF scheduleDay = undefined THEN <<>> ELSE SelectSeq(scheduleDay.slots, Matches)

\* after a run of k >= 1 toggles of (day, n) that began with n absent, n is in
\* the day once, available exactly when k is odd, and selected exactly then
C14_AfterRun ==
    (toggleRun.k >= 1) =>
        LET held == SlotsNumbered(formData.schedule, toggleRun.day, toggleRun.slotNumber)
            selected == getSelectedSlotsForDay(formData.schedule, toggleRun.day)
        IN /\ Len(held) = 1
           /\ held[1].isAvailable = (toggleRun.k % 2 = 1)
           /\ (toggleRun.slotNumber \in Range(selected)) = (toggleRun.k % 2 = 1)

\* a toggle takes no slot number out of any day entry
C14_ToggleStep ==
    (lastOp'.op = "toggleSlotAvailability") =>
        /\ Len(formData'.schedule) = Len(formData.schedule)
        /\ \A i \in 1..Len(formData.schedule) :
               \A k \in 1..Len(formData.schedule[i].slots) :
                   \E j \in 1..Len(formData'.schedule[i].slots) :
                       formData'.schedule[i].slots[j].slotNumber
                           = formData.schedule[i].slots[k].slotNumber

\* C14: starting from a day that lacks catalog slot n, after k >= 1
\* consecutive toggles of (day, n) the slot is in the day's editing state
\* exactly once, its isAvailable is true iff k is odd, and
\* getSelectedSlotsForDay(day) contains n iff k is odd; toggling never removes
\* a slot from the editing state.
C14_ToggleRun == [] C14_AfterRun /\ [][C14_ToggleStep]_vars

\* three toggles in a row have switched a new slot on, off and on again
C14_Witness ==
    /\ toggleRun.k = 3
    /\ Len(SlotsNumbered(formData.schedule, toggleRun.day, toggleRun.slotNumber)) = 1
    /\ toggleRun.slotNumber
           \in Range(getSelectedSlotsForDay(formData.schedule, toggleRun.day))

(***************************************************************************)
(* Properties of saving the profile                                        *)
(***************************************************************************)

\* C15: the schedule handleSubmit sends to updateDoctorProfile is the cleaned
\* one: it holds no slot whose isAvailable is not true and no day entry
\* without slots, whatever editing schedule initialization and toggles led to.
C15_SubmittedIsCleaned ==
    request.sent =>
        \A i \in 1..Len(request.schedule) :
            /\ Len(request.schedule[i].slots) > 0
            /\ \A k \in 1..Len(request.schedule[i].slots) :
                   /\ "isAvailable" \in DOMAIN request.schedule[i].slots[k]
                   /\ request.schedule[i].slots[k].isAvailable = TRUE

\* a schedule with a day holding an available and an unavailable slot, a day
\* holding only an unavailable slot, and days without slots has been submitted
C15_Witness ==
    /\ lastOp = [op |-> "handleSubmit", sent |-> TRUE]
    /\ request.sent
    /\ Len(request.schedule) = 1
    /\ \E i, j \in 1..Len(formData.schedule) :
           /\ i # j
           /\ \E k \in 1..Len(formData.schedule[i].slots) :
                  formData.schedule[i].slots[k].isAvailable = TRUE
           /\ \E k \in 1..Len(formData.schedule[i].slots) :
                  formData.schedule[i].slots[k].isAvailable = FALSE
           /\ Len(formData.schedule[j].slots) = 1
           /\ formData.schedule[j].slots[1].isAvailable = FALSE

\* the weekdays whose entry in the schedule has an available slot, in the
\* order of the schedule
DaysWithSelection(schedule) ==
    LET HasSelection(d) == Len(SelectSeq(d.slots, isAvailableTruthy)) > 0
        DayOf(d) == d.day
    IN map(SelectSeq(schedule, HasSelection), DayOf)

\* the editing schedule was built from the empty week and holds slots for one
\* weekday only, all of them available
OnlyDaySwitchedOn(schedule, i) ==
    /\ currentUser = [role |-> "doctor", schedule |-> <<>>]
    /\ Len(schedule[i].slots) > 0
    /\ \A k \in 1..Len(schedule[i].slots) : schedule[i].slots[k].isAvailable = TRUE
    /\ \A j \in (1..Len(schedule)) \ {i} : schedule[j].slots = <<>>

\* C16: cleaning loses no availability. For every weekday the available slot
\* numbers of the submitted schedule equal getSelectedSlotsForDay of the
\* editing schedule, and the submitted day entries are the weekdays that have
\* a selection. When the doctor started from the empty week and switched on a
\* set of catalog slots for one weekday, the submitted schedule is one entry,
\* for that weekday, holding exactly those slots with the catalog's times and
\* isAvailable true.
C16_CleaningKeepsAvailability ==
    (lastOp = [op |-> "handleSubmit", sent |-> TRUE]) =>
        /\ request.sent
        /\ \A day \in Range(days) :
               getSelectedSlotsForDay(request.schedule, day)
                   = getSelectedSlotsForDay(formData.schedule, day)
        /\ LET DayOf(d) == d.day
           IN map(request.schedule, DayOf) = DaysWithSelection(formData.schedule)
        /\ \A i \in 1..Len(formData.schedule) :
               OnlyDaySwitchedOn(formData.schedule, i)
                   => /\ Len(request.schedule) = 1
                      /\ request.schedule[1].day = formData.schedule[i].day
                      /\ Len(request.schedule[1].slots) = Len(formData.schedule[i].slots)
                      /\ \A k \in 1..Len(request.schedule[1].slots) :
                             /\ request.schedule[1].slots[k]
                                    = CatalogEntry(formData.schedule[i].slots[k].slotNumber)
                             /\ \A j \in 1..Len(request.schedule[1].slots) :
                                    (j # k) => request.schedule[1].slots[j].slotNumber
                                                   # request.schedule[1].slots[k].slotNumber

\* from the empty week, slots 1 and 2 of Monday were switched on and submitted
C16_Witness ==
    /\ lastOp = [op |-> "handleSubmit", sent |-> TRUE]
    /\ currentUser = [role |-> "doctor", schedule |-> <<>>]
    /\ request.sent
    /\ request.schedule = << [day |-> "Monday",
                              slots |-> <<CatalogEntry(1), CatalogEntry(2)>>] >>
    /\ OnlyDaySwitchedOn(formData.schedule, 1)

\* the slot is held by the entry of the weekday in the schedule
Holds(schedule, day, slotNumber) ==
    \E i \in 1..Len(schedule) :
        /\ schedule[i].day = day
        /\ \E k \in 1..Len(schedule[i].slots) :
               schedule[i].slots[k].slotNumber = slotNumber

C18_SubmitStep ==
    (lastOp'.op \in {"handleSubmit", "handleSubmitResponse"}) =>
        \A i \in 1..Len(formData.schedule) :
            \A k \in 1..Len(formData.schedule[i].slots) :
                (formData.schedule[i].slots[k].isAvailable = FALSE)
                    => Holds(formData'.schedule, formData.schedule[i].day,
                             formData.schedule[i].slots[k].slotNumber)

\* C18: the clean step is not applied to the editing schedule: no step of
\* handleSubmit, before or after the request, takes an entry with isAvailable
\* false out of formData.schedule, so a slot switched off before a save is
\* still in the editing state after the save.
C18_SaveKeepsUnavailable == [][C18_SubmitStep]_vars

(***************************************************************************)
(* The same operations on a heap                                           *)
(*                                                                         *)
(* Arrays and objects are allocated on a heap and held by address, so that *)
(* two values can share an array or an object and an in-place edit (an     *)
(* assignment, push or sort) is seen through every reference to it.  The   *)
(* address of an object is its index in heap; 0 stands for undefined.      *)
(* spread, map, filter and literals allocate; sort edits its receiver.     *)
(***************************************************************************)

\* an array, holding addresses or numbers, and an object, holding fields
Array(items) == [kind |-> "array", items |-> items]
Object(fields) == [kind |-> "object", fields |-> fields]

\* the heap after allocating one object per record, in order
allocateAll(h, records) == h \o [i \in 1..Len(records) |-> Object(records[i])]

\* Array.prototype.find on an array of objects: the address of the first
\* match, or 0
findRef(items, Test(_)) ==
    LET index == findIndex(items, Test)
    IN IF index >= 0 THEN items[index + 1] ELSE 0

\* module load: the objects of the catalog and the array holding them
HeapWithCatalog ==
    LET slots == generateTimeSlots
    IN Append(allocateAll(<<>>, slots), Array([i \in 1..Len(slots) |-> i]))

\* a stored schedule as it arrives from the API: one object per slot, one
\* array and one object per day, and the array of the days
RECURSIVE parseSchedule(_, _, _)
parseSchedule(h, schedule, dayRefs) ==
    IF Len(dayRefs) = Len(schedule)
    THEN [heap |-> Append(h, Array(dayRefs)), ref |-> Len(h) + 1]
    ELSE LET d == schedule[Len(dayRefs) + 1]
             h1 == allocateAll(h, d.slots)
             h2 == Append(h1, Array([k \in 1..Len(d.slots) |-> Len(h) + k]))
             h3 == Append(h2, Object([day |-> d.day, slots |-> Len(h2)]))
         IN parseSchedule(h3, schedule, Append(dayRefs, Len(h3)))

\* the slots array of the day object at address scheduleDay
slotsOf(h, scheduleDay) == h[h[scheduleDay].fields.slots].items

\* days.map(day => ...) of initializeSchedule, from the callback for the next
\* day on: an existing day gets new slot objects in a new array, a missing
\* day an empty array
RECURSIVE initializeScheduleAt(_, _, _)
initializeScheduleAt(h, existingSchedule, dayRefs) ==
    IF Len(dayRefs) = Len(days)
    THEN [heap |-> Append(h, Array(dayRefs)), ref |-> Len(h) + 1]
    ELSE LET day == days[Len(dayRefs) + 1]
             IsDay(s) == h[s].fields.day = day
             existingDay == findRef(h[existingSchedule].items, IsDay)
             existingSlots == IF existingDay # 0 THEN slotsOf(h, existingDay) ELSE <<>>
             h1 == allocateAll(h, [k \in 1..Len(existingSlots) |->
                                      carrySlot(h[existingSlots[k]].fields)])
             h2 == Append(h1, Array([k \in 1..Len(existingSlots) |-> Len(h) + k]))
             h3 == Append(h2, Object([day |-> day, slots |-> Len(h2)]))
         IN initializeScheduleAt(h3, existingSchedule, Append(dayRefs, Len(h3)))

\* one insertion of the stable sort, on addresses of slot objects
insertRefBySlotNumber(h, sorted, x) ==
    LET k == Cardinality({i \in 1..Len(sorted) :
                             h[sorted[i]].fields.slotNumber <= h[x].fields.slotNumber})
    IN SubSeq(sorted, 1, k) \o <<x>> \o SubSeq(sorted, k + 1, Len(sorted))

\* the items of an array after sort((a, b) => a.slotNumber - b.slotNumber)
RECURSIVE sortRefs(_, _)
sortRefs(h, items) ==
    IF Len(items) = 0 THEN <<>>
    ELSE insertRefBySlotNumber(h, sortRefs(h, SubSeq(items, 1, Len(items) - 1)),
                               items[Len(items)])

\* the toggle of an existing slot: the slots array is copied, the copy gets a
\* new slot object at the index, and a new day object holds the copy
flipExistingSlot(h, scheduleDay, existingSlotIndex) ==
    LET h1 == Append(h, Array(slotsOf(h, scheduleDay)))
        updatedSlots == Len(h1)
        h2 == Append(h1, Object(flipSlot(h[slotsOf(h, scheduleDay)[existingSlotIndex + 1]].fields)))
        h3 == [h2 EXCEPT ![updatedSlots].items[existingSlotIndex + 1] = Len(h2)]
        h4 == Append(h3, Object([h[scheduleDay].fields EXCEPT !.slots = updatedSlots]))
    IN [heap |-> h4, ref |-> Len(h4)]

\* the new slot was pushed onto the day's own array, which was then sorted
addSlot_inPlace(h, scheduleDay, fixedSlot) ==
    LET h1 == Append(h, Object(newSlot(h[fixedSlot].fields)))
        h2 == [h1 EXCEPT ![h[scheduleDay].fields.slots].items =
                   sortRefs(h1, Append(@, Len(h1)))]
    IN [heap |-> h2, ref |-> scheduleDay]

\* the catalog's own slot object was marked available and put into the day
addSlot_byReference(h, scheduleDay, fixedSlot) ==
    LET h1 == [h EXCEPT ![fixedSlot].fields = newSlot(@)]
        h2 == Append(h1, Array(sortRefs(h1, Append(slotsOf(h, scheduleDay), fixedSlot))))
        h3 == Append(h2, Object([h[scheduleDay].fields EXCEPT !.slots = Len(h2)]))
    IN [heap |-> h3, ref |-> Len(h3)]

\* the toggle of a missing slot: a new slot object copied from the catalog's,
\* a new array of the day's slots and the new one, sorted, and a new day
\* object holding that array
addSlot(h, scheduleDay, fixedSlot) ==
    LET h1 == Append(h, Object(newSlot(h[fixedSlot].fields)))
        h2 == Append(h1, Array(Append(slotsOf(h, scheduleDay), Len(h1))))
        h3 == [h2 EXCEPT ![Len(h2)].items = sortRefs(h2, @)]
        h4 == Append(h3, Object([h[scheduleDay].fields EXCEPT !.slots = Len(h2)]))
    IN [heap |-> h4, ref |-> Len(h4)]

\* the map callback of toggleSlotAvailability for one day object
toggleDayAt(h, scheduleDay, day, slotNumber) ==
    LET Matches(s) == h[s].fields.slotNumber = slotNumber
        existingSlotIndex == findIndex(slotsOf(h, scheduleDay), Matches)
        fixedSlot == findRef(h[roots.FIXED_TIME_SLOTS].items, Matches)
    IN IF h[scheduleDay].fields.day # day THEN [heap |-> h, ref |-> scheduleDay]
       ELSE IF existingSlotIndex >= 0
       THEN flipExistingSlot(h, scheduleDay, existingSlotIndex)
       ELSE IF fixedSlot # 0 THEN addSlot(h, scheduleDay, fixedSlot)
       ELSE [heap |-> h, ref |-> scheduleDay]

\* formData.schedule.map(...) of toggleSlotAvailability, from the callback for
\* the next day object on
RECURSIVE toggleScheduleAt(_, _, _, _, _)
toggleScheduleAt(h, schedule, day, slotNumber, dayRefs) ==
    IF Len(dayRefs) = Len(h[schedule].items)
    THEN [heap |-> Append(h, Array(dayRefs)), ref |-> Len(h) + 1]
    ELSE LET r == toggleDayAt(h, h[schedule].items[Len(dayRefs) + 1], day, slotNumber)
         IN toggleScheduleAt(r.heap, schedule, day, slotNumber, Append(dayRefs, r.ref))

\* formData.schedule.map(day => ({ ...day, slots: day.slots.filter(...) })),
\* from the callback for the next day object on
RECURSIVE cleanDaysAt(_, _, _)
cleanDaysAt(h, schedule, dayRefs) ==
    IF Len(dayRefs) = Len(h[schedule].items)
    THEN [heap |-> Append(h, Array(dayRefs)), ref |-> Len(h) + 1]
    ELSE LET day == h[schedule].items[Len(dayRefs) + 1]
             Available(s) == isAvailableTruthy(h[s].fields)
             h1 == Append(h, Array(SelectSeq(slotsOf(h, day), Available)))
             h2 == Append(h1, Object([h[day].fields EXCEPT !.slots = Len(h1)]))
         IN cleanDaysAt(h2, schedule, Append(dayRefs, Len(h2)))

\* cleanedSchedule of handleSubmit: the mapped array, filtered into another
cleanScheduleAt(h, schedule) ==
    LET mapped == cleanDaysAt(h, schedule, <<>>)
        HasSlots(day) == Len(slotsOf(mapped.heap, day)) > 0
    IN [heap |-> Append(mapped.heap,
                        Array(SelectSeq(mapped.heap[mapped.ref].items, HasSlots))),
        ref |-> Len(mapped.heap) + 1]

\* getSelectedSlotsForDay: the filtered array, mapped into an array of numbers
getSelectedSlotsForDayAt(h, schedule, day) ==
    LET IsDay(s) == h[s].fields.day = day
        Available(s) == isAvailableTruthy(h[s].fields)
        scheduleDay == findRef(h[schedule].items, IsDay)
        filtered == IF scheduleDay = 0 THEN <<>>
                    ELSE SelectSeq(slotsOf(h, scheduleDay), Available)
    IN IF scheduleDay = 0
       THEN [heap |-> Append(h, Array(<<>>)), ref |-> Len(h) + 1]
       ELSE [heap |-> h \o << Array(filtered),
                              Array([k \in 1..Len(filtered) |->
                                        h[filtered[k]].fields.slotNumber]) >>,
             ref |-> Len(h) + 2]

\* getSlotByNumber: the address of the catalog's slot object, or 0
getSlotByNumberAt(h, slotNumber) ==
    LET Matches(s) == h[s].fields.slotNumber = slotNumber
    IN findRef(h[roots.FIXED_TIME_SLOTS].items, Matches)

\* the stored schedules the operations start from
HeapSchedules == {u.schedule : u \in {v \in SaveUsers : v.role = "doctor"}}

\* most operations followed on one heap
MaxHeapOps == 4

\* the module is loaded, the stored schedule has arrived, and the component
\* is mounted with schedule: []
InitHeap ==
    /\ InitCatalogIdle
    /\ InitScheduleIdle
    /\ InitEditIdle
    /\ InitBookIdle
    /\ \E stored \in HeapSchedules :
           LET loaded == parseSchedule(HeapWithCatalog, stored, <<>>)
           IN /\ heap = Append(loaded.heap, Array(<<>>))
              /\ roots = [FIXED_TIME_SLOTS |-> Len(HeapWithCatalog),
                          currentUser |-> loaded.ref,
                          formData |-> Len(loaded.heap) + 1,
                          cleanedSchedule |-> 0]
    /\ heapOp = NoHeapOp

\* fetchUserProfile: setFormData with initializeSchedule(currentUser.schedule)
HeapInitializeSchedule ==
    LET r == initializeScheduleAt(heap, roots.currentUser, <<>>)
    IN /\ heapOp.count < MaxHeapOps
       /\ heap' = r.heap
       /\ roots' = [roots EXCEPT !.formData = r.ref]
       /\ heapOp' = [op |-> "initializeSchedule", count |-> heapOp.count + 1,
                     input |-> roots.currentUser, result |-> r.ref]
       /\ UNCHANGED <<catalogVars, initVars, editVars, bookVars>>

\* toggleSlotAvailability: setFormData with the mapped schedule
HeapToggleSlotAvailability ==
    \E day \in ToggleDays, slotNumber \in ToggleSlotNumbers :
        LET r == toggleScheduleAt(heap, roots.formData, day, slotNumber, <<>>)
        IN /\ heapOp.op # "none"
           /\ heapOp.count < MaxHeapOps
           /\ heap' = r.heap
           /\ roots' = [roots EXCEPT !.formData = r.ref]
           /\ heapOp' = [op |-> "toggleSlotAvailability", count |-> heapOp.count + 1,
                         input |-> roots.formData, result |-> r.ref]
           /\ UNCHANGED <<catalogVars, initVars, editVars, bookVars>>

\* a render reads getSelectedSlotsForDay(day)
HeapGetSelectedSlotsForDay ==
    \E day \in ToggleDays :
        LET r == getSelectedSlotsForDayAt(heap, roots.formData, day)
        IN /\ heapOp.op # "none"
           /\ heapOp.count < MaxHeapOps
           /\ heap' = r.heap
           /\ heapOp' = [op |-> "getSelectedSlotsForDay", count |-> heapOp.count + 1,
                         input |-> roots.formData, result |-> r.ref]
           /\ UNCHANGED <<roots, catalogVars, initVars, editVars, bookVars>>

\* handleSubmit builds cleanedSchedule for the request
HeapHandleSubmit ==
    LET r == cleanScheduleAt(heap, roots.formData)
    IN /\ heapOp.op # "none"
       /\ heapOp.count < MaxHeapOps
       /\ heap' = r.heap
       /\ roots' = [roots EXCEPT !.cleanedSchedule = r.ref]
       /\ heapOp' = [op |-> "handleSubmit", count |-> heapOp.count + 1,
                     input |-> roots.formData, result |-> r.ref]
       /\ UNCHANGED <<catalogVars, initVars, editVars, bookVars>>

\* a caller looks a slot up with getSlotByNumber
HeapGetSlotByNumber ==
    \E slotNumber \in ToggleSlotNumbers :
        /\ heapOp.count < MaxHeapOps
        /\ heapOp' = [op |-> "getSlotByNumber", count |-> heapOp.count + 1,
                      input |-> roots.FIXED_TIME_SLOTS,
                      result |-> getSlotByNumberAt(heap, slotNumber)]
        /\ UNCHANGED <<heap, roots, catalogVars, initVars, editVars, bookVars>>

NextHeap ==
    \/ HeapInitializeSchedule
    \/ HeapToggleSlotAvailability
    \/ HeapGetSelectedSlotsForDay
    \/ HeapHandleSubmit
    \/ HeapGetSlotByNumber

SpecHeap == InitHeap /\ [][NextHeap]_vars

\* the addresses of the schedule array, its day objects, their slots arrays
\* and their slot objects
ScheduleObjects(h, schedule) ==
    LET dayRefs == Range(h[schedule].items)
    IN {schedule} \cup dayRefs
           \cup {h[d].fields.slots : d \in dayRefs}
           \cup UNION {Range(slotsOf(h, d)) : d \in dayRefs}

C19_Step ==
    (heapOp'.op \in {"toggleSlotAvailability", "handleSubmit"}) =>
        /\ heapOp'.input = roots.formData
        /\ heapOp'.result \notin 1..Len(heap)
        /\ heap'[heapOp'.result].kind = "array"
        /\ \A a \in ScheduleObjects(heap, roots.formData) : heap'[a] = heap[a]

\* C19: toggleSlotAvailability and the clean step of handleSubmit return a
\* newly allocated schedule array and edit nothing in place: the schedule
\* array, the day objects, their slots arrays and the slot objects that made
\* up the editing schedule before the call are the same after it.
C19_NoInPlaceEdit == [][C19_Step]_vars

\* a slot was added in front of another one of the day, which needed the
\* sort, and the schedule was then cleaned
C19_Witness ==
    /\ heapOp.op = "handleSubmit"
    /\ heapOp.count = 4
    /\ \E d \in Range(heap[roots.formData].items) :
           /\ Len(slotsOf(heap, d)) = 2
           /\ slotsOf(heap, d)[1] > slotsOf(heap, d)[2]
    /\ Len(heap[roots.cleanedSchedule].items) = 1

\* the catalog as it stands on the heap
CatalogOnHeap ==
    [i \in 1..Len(heap[roots.FIXED_TIME_SLOTS].items) |->
        heap[heap[roots.FIXED_TIME_SLOTS].items[i]].fields]

\* C20: the slot catalog is a read-only constant: after any sequence of
\* initialize, toggle, selected-slots query, clean and lookup operations
\* FIXED_TIME_SLOTS holds the 48 generated entries with their slotNumber,
\* startTime and endTime and no other field.
C20_CatalogConstant ==
    (heap # <<>>) =>
        /\ CatalogOnHeap = generateTimeSlots
        /\ Len(CatalogOnHeap) = 48
        /\ \A i \in 1..Len(CatalogOnHeap) :
               DOMAIN CatalogOnHeap[i] = {"slotNumber", "startTime", "endTime"}

\* from the empty week catalog slot 1 was put into a day and then switched
\* off, and a lookup has since returned the catalog's own object
C20_Witness ==
    /\ heapOp.op = "getSlotByNumber"
    /\ heapOp.result \in Range(heap[roots.FIXED_TIME_SLOTS].items)
    /\ heap[roots.currentUser].items = <<>>
    /\ \E d \in Range(heap[roots.formData].items) :
           /\ Len(slotsOf(heap, d)) = 1
           /\ heap[slotsOf(heap, d)[1]].fields
                  = [CatalogEntry(1) EXCEPT !.isAvailable = FALSE]

(***************************************************************************)
(* components/TimeBlockSelector                                            *)
(***************************************************************************)

\* Array.prototype.includes
includes(array, x) == \E i \in 1..Len(array) : array[i] = x

\* getFilteredSlotsForBlock; the props lack availableSlots when the caller
\* did not pass it
getFilteredSlotsForBlock(props, blockIndex) ==
    LET blockSlots == getSlotsForBlock(blockIndex)
        Available(slot) == includes(props.availableSlots, slot.slotNumber)
    IN IF "availableSlots" \in DOMAIN props /\ Len(props.availableSlots) > 0
       THEN SelectSeq(blockSlots, Available)
       ELSE blockSlots

\* the slot numbers of the slot buttons rendered, over all blocks of
\* TIME_BLOCKS.map
renderedSlotNumbers(props) ==
    UNION {{slot.slotNumber : slot \in Range(getFilteredSlotsForBlock(props, blockIndex))} :
              blockIndex \in 0..(Len(TIME_BLOCKS) - 1)}

(***************************************************************************)
(* pages/DoctorPage: booking an appointment                                *)
(*                                                                         *)
(* A date is named by its distance from today; "" is the empty date input. *)
(***************************************************************************)

\* String.prototype.trim, for the space character
RECURSIVE trim(_)
trim(s) ==
    IF Len(s) > 0 /\ s[1] = " " THEN trim(Tail(s))
    ELSE IF Len(s) > 0 /\ s[Len(s)] = " " THEN trim(SubSeq(s, 1, Len(s) - 1))
    ELSE s

\* maxDate is today plus this many days
horizonDays == 7

\* the dates the patient enters into the date input
InputDates == {"today", "today+7", "today+8"}

daysFromToday(date) ==
    CASE date = "today" -> 0
      [] date = "today+7" -> 7
      [] date = "today+8" -> 8

\* the date input's value satisfies its min and max attributes
withinMinMax(date) == daysFromToday(date) >= 0 /\ daysFromToday(date) <= horizonDays

\* a slot of the old hourly layout, numbered like a catalog slot
HourlySlot ==
    [slotNumber |-> 2, startTime |-> <<"1", "0", ":", "0", "0">>,
     endTime |-> <<"1", "1", ":", "0", "0">>]

\* the availableSlots the backend answers with for a date
availableSlotsOn(date) ==
    CASE date = "today" -> <<FIXED_TIME_SLOTS[1], FIXED_TIME_SLOTS[2]>>
      [] date = "today+7" -> <<HourlySlot, FIXED_TIME_SLOTS[3]>>
      [] date = "today+8" -> <<FIXED_TIME_SLOTS[3]>>

\* the reasons the patient types
Reasons == {<<" ">>, <<"f", "l", "u">>}

\* most getAvailableSlots calls and most addAppointment calls followed
MaxSlotRequests == 2
MaxBookings == 1

\* the component is mounted for a patient: useState initial values
InitBook ==
    /\ InitCatalogIdle
    /\ InitScheduleIdle
    /\ InitEditIdle
    /\ InitHeapIdle
    /\ doctorPage = [doctor |-> null, selectedDate |-> "", selectedSlot |-> null,
                     availableSlots |-> <<>>, reason |-> <<>>, isLoading |-> TRUE,
                     isFetchingSlots |-> FALSE]
    /\ slotsEffectPending = FALSE
    /\ slotRequests = <<>>
    /\ bookingRequests = <<>>

\* the booking form is rendered and no effect is waiting to run
formRendered ==
    /\ doctorPage.doctor # null
    /\ ~slotsEffectPending

\* the effect on [id]: loadDoctor, which either sets the doctor or fails
LoadDoctor ==
    \E found \in BOOLEAN :
        /\ doctorPage.doctor = null
        /\ doctorPage.isLoading
        /\ doctorPage' = [doctorPage EXCEPT
                              !.doctor = IF found THEN [_id |-> "doctor"] ELSE null,
                              !.isLoading = FALSE]
        /\ slotsEffectPending' = found
        /\ UNCHANGED <<slotRequests, bookingRequests, catalogVars, initVars, editVars,
                       heapVars>>

\* the effect on [selectedDate, doctor]: fetchAvailableSlots up to the await
FetchAvailableSlots ==
    /\ slotsEffectPending
    /\ slotsEffectPending' = FALSE
    /\ IF doctorPage.selectedDate # "" /\ doctorPage.doctor # null
       THEN /\ doctorPage' = [doctorPage EXCEPT !.isFetchingSlots = TRUE]
            /\ slotRequests' = Append(slotRequests,
                                      [doctorId |-> doctorPage.doctor._id,
                                       date |-> doctorPage.selectedDate,
                                       status |-> "pending", slots |-> <<>>])
       ELSE UNCHANGED <<doctorPage, slotRequests>>
    /\ UNCHANGED <<bookingRequests, catalogVars, initVars, editVars, heapVars>>

\* fetchAvailableSlots after the await: the answer arrives, or the call throws
FetchAvailableSlotsDone ==
    \E i \in 1..Len(slotRequests), ok \in BOOLEAN :
        /\ ~slotsEffectPending
        /\ slotRequests[i].status = "pending"
        /\ IF ok
           THEN /\ doctorPage' = [doctorPage EXCEPT
                                      !.availableSlots = availableSlotsOn(slotRequests[i].date),
                                      !.selectedSlot = null,
                                      !.isFetchingSlots = FALSE]
                /\ slotRequests' = [slotRequests EXCEPT
                                        ![i].status = "ok",
                                        ![i].slots = availableSlotsOn(slotRequests[i].date)]
           ELSE /\ doctorPage' = [doctorPage EXCEPT !.availableSlots = <<>>,
                                                    !.isFetchingSlots = FALSE]
                /\ slotRequests' = [slotRequests EXCEPT ![i].status = "failed"]
        /\ UNCHANGED <<slotsEffectPending, bookingRequests, catalogVars, initVars,
                       editVars, heapVars>>

\* onChange of the date input: setSelectedDate(e.target.value)
ChangeSelectedDate ==
    \E date \in InputDates \cup {""} :
        /\ formRendered
        /\ date # doctorPage.selectedDate
        /\ (date # "") => Len(slotRequests) < MaxSlotRequests
        /\ doctorPage' = [doctorPage EXCEPT !.selectedDate = date]
        /\ slotsEffectPending' = TRUE
        /\ UNCHANGED <<slotRequests, bookingRequests, catalogVars, initVars, editVars,
                       heapVars>>

\* the props DoctorPage passes to TimeBlockSelector
selectorProps ==
    LET SlotNumberOf(s) == s.slotNumber
    IN [availableSlots |-> map(doctorPage.availableSlots, SlotNumberOf)]

\* onSlotToggle of the TimeBlockSelector, for a slot button it renders
SelectSlot ==
    \E slotNumber \in renderedSlotNumbers(selectorProps) :
        LET Matches(s) == s.slotNumber = slotNumber
            slot == find(doctorPage.availableSlots, Matches)
        IN /\ formRendered
           /\ doctorPage.selectedDate # ""
           /\ ~doctorPage.isFetchingSlots
           /\ Len(doctorPage.availableSlots) > 0
           /\ doctorPage' = IF slot # undefined
                            THEN [doctorPage EXCEPT !.selectedSlot = slot]
                            ELSE doctorPage
           /\ UNCHANGED <<slotsEffectPending, slotRequests, bookingRequests, catalogVars,
                          initVars, editVars, heapVars>>

\* onChange of the reason textarea, rendered once a slot is selected
ChangeReason ==
    \E text \in Reasons :
        /\ formRendered
        /\ doctorPage.selectedSlot # null
        /\ text # doctorPage.reason
        /\ doctorPage' = [doctorPage EXCEPT !.reason = text]
        /\ UNCHANGED <<slotsEffectPending, slotRequests, bookingRequests, catalogVars,
                       initVars, editVars, heapVars>>

\* the submit button is enabled and the form passes the browser's validation
\* of the date input's min and max
canSubmit ==
    /\ doctorPage.selectedDate # ""
    /\ doctorPage.selectedSlot # null
    /\ trim(doctorPage.reason) # <<>>
    /\ ~doctorPage.isLoading
    /\ withinMinMax(doctorPage.selectedDate)

\* the times were looked up in the catalog by the selected slot's number
appointmentData_catalogTimes ==
    [doctorId |-> doctorPage.doctor._id,
     date |-> doctorPage.selectedDate,
     slotNumber |-> doctorPage.selectedSlot.slotNumber,
     startTime |-> getSlotByNumber(doctorPage.selectedSlot.slotNumber).startTime,
     endTime |-> getSlotByNumber(doctorPage.selectedSlot.slotNumber).endTime,
     reason |-> trim(doctorPage.reason),
     status |-> "pending"]

\* the appointmentData of handleBookAppointment
appointmentData ==
    [doctorId |-> doctorPage.doctor._id,
     date |-> doctorPage.selectedDate,
     slotNumber |-> doctorPage.selectedSlot.slotNumber,
     startTime |-> doctorPage.selectedSlot.startTime,
     endTime |-> doctorPage.selectedSlot.endTime,
     reason |-> trim(doctorPage.reason),
     status |-> "pending"]

\* handleBookAppointment up to the await
HandleBookAppointment ==
    /\ formRendered
    /\ canSubmit
    /\ Len(bookingRequests) < MaxBookings
    /\ doctorPage' = [doctorPage EXCEPT !.isLoading = TRUE]
    /\ bookingRequests' = Append(bookingRequests, [data |-> appointmentData,
                                                   outcome |-> "pending"])
    /\ UNCHANGED <<slotsEffectPending, slotRequests, catalogVars, initVars, editVars,
                   heapVars>>

\* handleBookAppointment after the await: booked, or addAppointment throws
HandleBookAppointmentDone ==
    \E i \in 1..Len(bookingRequests), ok \in BOOLEAN :
        /\ ~slotsEffectPending
        /\ bookingRequests[i].outcome = "pending"
        /\ bookingRequests' = [bookingRequests EXCEPT
                                   ![i].outcome = IF ok THEN "booked" ELSE "failed"]
        /\ IF ok
           THEN /\ doctorPage' = [doctorPage EXCEPT !.selectedDate = "",
                                                    !.selectedSlot = null,
                                                    !.availableSlots = <<>>,
                                                    !.reason = <<>>,
                                                    !.isLoading = FALSE]
                /\ slotsEffectPending' = (doctorPage.selectedDate # "")
           ELSE /\ doctorPage' = [doctorPage EXCEPT !.isLoading = FALSE]
                /\ UNCHANGED slotsEffectPending
        /\ UNCHANGED <<slotRequests, catalogVars, initVars, editVars, heapVars>>

NextBook ==
    \/ LoadDoctor
    \/ FetchAvailableSlots
    \/ FetchAvailableSlotsDone
    \/ ChangeSelectedDate
    \/ SelectSlot
    \/ ChangeReason
    \/ HandleBookAppointment
    \/ HandleBookAppointmentDone

SpecBook == InitBook /\ [][NextBook]_vars

(***************************************************************************)
(* Properties of the booking page                                          *)
(***************************************************************************)

\* C21: the booking page turns away a date outside the booking horizon, today
\* through today + 7 days, before it asks for the available slots:
\* getAvailableSlots is never called with an earlier or a later date.
C21_FetchWithinHorizon ==
    \A i \in 1..Len(slotRequests) : withinMinMax(slotRequests[i].date)

\* the slot of the booking request, as the three fields it carries
BookedSlot(data) ==
    [slotNumber |-> data.slotNumber, startTime |-> data.startTime,
     endTime |-> data.endTime]

\* C22: every booking request of handleBookAppointment carries the doctor's
\* id, a date, and a slotNumber, startTime and endTime that are together the
\* fields of one entry of an availableSlots list the backend has answered
\* with.
C22_BookedSlotFromResponse ==
    \A b \in 1..Len(bookingRequests) :
        /\ bookingRequests[b].data.doctorId = "doctor"
        /\ bookingRequests[b].data.date \in InputDates
        /\ \E i \in 1..Len(slotRequests) :
               /\ slotRequests[i].status = "ok"
               /\ BookedSlot(bookingRequests[b].data) \in Range(slotRequests[i].slots)

\* the slot numbered 2 was answered with the catalog's times for one date and
\* with other times for another date, and was booked with the other times
C22_Witness ==
    /\ Len(bookingRequests) = 1
    /\ BookedSlot(bookingRequests[1].data) = HourlySlot
    /\ bookingRequests[1].data.date = "today+7"
    /\ \E i \in 1..Len(slotRequests) :
           /\ slotRequests[i].status = "ok"
           /\ FIXED_TIME_SLOTS[2] \in Range(slotRequests[i].slots)

(***************************************************************************)
(* Properties of the selection read from the editing schedule              *)
(***************************************************************************)

\* the positions of the available entries among the slots of a day
AvailableAt(slots) == {k \in 1..Len(slots) : slots[k].isAvailable = TRUE}

\* result lists the slot numbers at the positions of AvailableAt(slots), one
\* per position, in the order of the positions
ListsAvailable(result, slots) ==
    /\ Len(result) = Cardinality(AvailableAt(slots))
    /\ \A k \in AvailableAt(slots) :
           result[Cardinality({m \in AvailableAt(slots) : m <= k})]
               = slots[k].slotNumber

\* C23: getSelectedSlotsForDay(day) returns exactly the slotNumbers of the
\* day's entries whose isAvailable is true, once per entry and in the order of
\* the entries, and the empty array when the schedule has no entry for the
\* day.
C23_SelectedAreAvailable ==
    \A d \in 1..Len(days) :
        IF \E i \in 1..Len(formData.schedule) : formData.schedule[i].day = days[d]
        THEN \E i \in 1..Len(formData.schedule) :
                 /\ formData.schedule[i].day = days[d]
                 /\ \A j \in 1..(i - 1) : formData.schedule[j].day # days[d]
                 /\ ListsAvailable(getSelectedSlotsForDay(formData.schedule, days[d]),
                                   formData.schedule[i].slots)
        ELSE getSelectedSlotsForDay(formData.schedule, days[d]) = <<>>

\* Monday holds a slot that is switched off before one that is switched on,
\* and only the second is returned
C23_Witness ==
    /\ Len(formData.schedule) > 0
    /\ formData.schedule[1].day = "Monday"
    /\ Len(formData.schedule[1].slots) = 2
    /\ formData.schedule[1].slots[1].isAvailable = FALSE
    /\ formData.schedule[1].slots[2].isAvailable = TRUE
    /\ getSelectedSlotsForDay(formData.schedule, "Monday")
           = <<formData.schedule[1].slots[2].slotNumber>>

\* a call of getAvailableSlots is answered, or throws, in this step
C24_FetchFinishes ==
    \E i \in 1..Len(slotRequests) :
        /\ slotRequests[i].status = "pending"
        /\ slotRequests'[i].status # "pending"

C24_FetchStep == C24_FetchFinishes => doctorPage'.selectedSlot = null

\* C24: after the date has changed and the fetchAvailableSlots it started has
\* finished, with an answer or with an error, selectedSlot is null.
C24_FetchClearsSelectedSlot == [][C24_FetchStep]_vars

\* C27: every booking request for a date d carries a slot that is contained in
\* a response obtained for d: a slot selected under an earlier date is never
\* submitted with a new date, also not while the new date's fetch is in flight
\* or after it has failed.
C27_BookedSlotOfBookedDate ==
    \A b \in 1..Len(bookingRequests) :
        \E i \in 1..Len(slotRequests) :
            /\ slotRequests[i].status = "ok"
            /\ slotRequests[i].date = bookingRequests[b].data.date
            /\ BookedSlot(bookingRequests[b].data) \in Range(slotRequests[i].slots)

\* every call of getAvailableSlots has been answered or has thrown, and no
\* effect is waiting to start another
AllFetchesFinished ==
    /\ ~slotsEffectPending
    /\ \A i \in 1..Len(slotRequests) : slotRequests[i].status # "pending"

\* what the page shows for the outcome of one call
ShownFor(slotRequest) ==
    IF slotRequest.status = "ok" THEN slotRequest.slots ELSE <<>>

\* C28: when the date is changed while a request is in flight, then once all
\* requests have completed availableSlots holds the response for the date that
\* is selected now, in whatever order the responses arrived.
C28_SlotsOfSelectedDate ==
    (/\ AllFetchesFinished
     /\ doctorPage.selectedDate # ""
     /\ Len(slotRequests) > 0)
        => /\ slotRequests[Len(slotRequests)].date = doctorPage.selectedDate
           /\ doctorPage.availableSlots = ShownFor(slotRequests[Len(slotRequests)])

(***************************************************************************)
(* Properties of the TimeBlockSelector                                     *)
(***************************************************************************)

\* longest availableSlots array passed to the selector
MaxAvailableLen == 2

\* the slot numbers the arrays are made of: the ends of the first block, the
\* start of the second, and a number outside the catalog
SelectorSlotNumbers == {1, 8, 9, 49}

\* the props of the selector: availableSlots is left out, or is an array of
\* at most MaxAvailableLen numbers, the empty array included
SelectorProps ==
    {[readOnly |-> FALSE]}
    \cup {[readOnly |-> FALSE, availableSlots |-> a] :
              a \in UNION {[1..n -> SelectorSlotNumbers] : n \in 0..MaxAvailableLen}}

\* TIME_BLOCKS.map calls getFilteredSlotsForBlock for a block
CallGetFilteredSlotsForBlock ==
    \E props \in SelectorProps, blockIndex \in 0..(Len(TIME_BLOCKS) - 1) :
        /\ call = NoCall
        /\ call' = [op |-> "getFilteredSlotsForBlock",
                    arg |-> [props |-> props, blockIndex |-> blockIndex],
                    result |-> getFilteredSlotsForBlock(props, blockIndex)]
        /\ UNCHANGED <<FIXED_TIME_SLOTS, initVars, editVars, heapVars, bookVars>>

\* the block has been rendered
SelectorRendered ==
    /\ call # NoCall
    /\ call' = NoCall
    /\ UNCHANGED <<FIXED_TIME_SLOTS, initVars, editVars, heapVars, bookVars>>

NextSelector ==
    \/ CallGetFilteredSlotsForBlock
    \/ SelectorRendered

SpecSelector == InitCatalog /\ [][NextSelector]_vars

\* C25: when the availableSlots prop is provided to the TimeBlockSelector,
\* every slot returned by getFilteredSlotsForBlock has its slotNumber in
\* availableSlots, for every provided array, the empty one included.
C25_FilteredAreAvailable ==
    (/\ call.op = "getFilteredSlotsForBlock"
     /\ "availableSlots" \in DOMAIN call.arg.props)
        => \A k \in 1..Len(call.result) :
               includes(call.arg.props.availableSlots, call.result[k].slotNumber)

(***************************************************************************)
(* Properties of a schedule edited from the empty week                     *)
(***************************************************************************)

\* the slots are in strictly ascending order of slotNumber, every slotNumber
\* is one of 1..48, and every slot has the times of the catalog's entry
CatalogSlotsAscending(slots) ==
    \A k \in 1..Len(slots) :
        /\ slots[k].slotNumber \in 1..48
        /\ slots[k].startTime = FIXED_TIME_SLOTS[slots[k].slotNumber].startTime
        /\ slots[k].endTime = FIXED_TIME_SLOTS[slots[k].slotNumber].endTime
        /\ (k > 1) => slots[k - 1].slotNumber < slots[k].slotNumber

\* C26: starting from initializeSchedule([]), after any sequence of toggles,
\* with any weekday and any integer slotNumber, every day's slots are strictly
\* ascending by slotNumber, every slotNumber is in 1..48, and every slot's
\* startTime and endTime are the catalog's for that number.
C26_EditedFromEmptyWeek ==
    (currentUser.role = "doctor" /\ currentUser.schedule = <<>>)
        => \A i \in 1..Len(formData.schedule) :
               CatalogSlotsAscending(formData.schedule[i].slots)

\* from the empty week, Monday holds slot 1 switched off and slot 2 switched
\* on, Sunday holds one slot, and the last toggle was of a number that is not
\* in the catalog
C26_Witness ==
    /\ currentUser = [role |-> "doctor", schedule |-> <<>>]
    /\ lastOp.op = "toggleSlotAvailability"
    /\ lastOp.slotNumber = StaleSlotNumber
    /\ Len(formData.schedule) = 7
    /\ Len(formData.schedule[1].slots) = 2
    /\ formData.schedule[1].slots[1].slotNumber = 1
    /\ formData.schedule[1].slots[1].isAvailable = FALSE
    /\ formData.schedule[1].slots[2].slotNumber = 2
    /\ Len(formData.schedule[7].slots) = 1

(***************************************************************************)
(* Properties of saving while editing, and of reloading what was saved     *)
(***************************************************************************)

\* the selection shown for every weekday is the same in both schedules
SameSelection(s, t) ==
    \A d \in 1..Len(days) :
        getSelectedSlotsForDay(s, days[d]) = getSelectedSlotsForDay(t, days[d])

C29_ResponseStep ==
    (/\ request.sent
     /\ request.toggles > 0
     /\ lastOp'.op = "handleSubmitResponse"
     /\ lastOp'.ok)
        => SameSelection(formData'.schedule, formData.schedule)

\* C29: a toggle made while a save is in flight is not lost: after the
\* response has been processed the editing state still shows the selection
\* the doctor made while waiting.
C29_ToggleDuringSaveKept == [][C29_ResponseStep]_vars

\* C30: saving and loading again preserves the selection: for every editing
\* schedule s with at most one entry per weekday, initializeSchedule of the
\* cleaned s gives the same getSelectedSlotsForDay for every weekday as s.
C30_RehydratedSelection ==
    SameSelection(initializeSchedule(cleanSchedule(formData.schedule)),
                  formData.schedule)

\* a save was submitted from a week in which Monday holds a slot switched off
\* before a slot switched on, and Sunday holds only a slot switched off, so the
\* cleaning drops a slot of Monday and the whole Sunday
C30_Witness ==
    /\ request.sent
    /\ request.toggles = 0
    /\ request.schedule = cleanSchedule(formData.schedule)
    /\ Len(request.schedule) = 1
    /\ Len(formData.schedule) = 7
    /\ Len(formData.schedule[1].slots) = 2
    /\ formData.schedule[1].slots[1].isAvailable = FALSE
    /\ formData.schedule[1].slots[2].isAvailable = TRUE
    /\ Len(formData.schedule[7].slots) = 1
    /\ formData.schedule[7].slots[1].isAvailable = FALSE

====
